---- MODULE Spec2Model ----
(***************************************************************************)
(* Model of the Validation Cloud client: the parameter validator, the      *)
(* JSON-RPC envelope builder / client (request, testConnection) and the    *)
(* response normalizer (transformResponse and its helpers).                *)
(*                                                                         *)
(* JavaScript values are tagged records: the tag t is what typeof and the  *)
(* truthiness tests of the code look at.  Strings that the code inspects   *)
(* (startsWith, replace, parseInt, BigInt) are tuples of one-character     *)
(* strings; messages of errors, which the code only copies, are Text       *)
(* values holding a TLA+ string.                                           *)
(***************************************************************************)
EXTENDS Integers, Sequences, FiniteSets, TLC

VARIABLES messageId, calls, posts, evaluation

vars == <<messageId, calls, posts, evaluation>>

(***************************************************************************)
(* Bounds of the model.                                                    *)
(***************************************************************************)
\* Number of request() / testConnection() calls made on the one client.
MaxCalls == 2

\* Longest params list a caller passes in the specification of single calls.
MaxParams == 2

\* Longest string, over the alphabet of the conversions, that a conversion
\* is applied to.
MaxHexLen == 4

\* Most digits of the long hexadecimal quantities (33 digits exceed 128 bits).
MaxBigDigits == 33

\* Most fields of the generated transactions and blocks.
MaxFields == 2

\* Longest transactions array of the generated blocks.
MaxTransactions == 2

(***************************************************************************)
(* JavaScript values.                                                      *)
(***************************************************************************)
\* A string the code inspects character by character is Str(<<"0", "x", "a">>);
\* a string it only tests and copies (a message) is Text("Network Error").
Undefined == [t |-> "undefined"]

Null == [t |-> "null"]

NaN == [t |-> "NaN"]

Str(s) == [t |-> "string", s |-> s]

Text(s) == [t |-> "text", s |-> s]

Num(n) == [t |-> "number", n |-> n]

Bool(b) == [t |-> "boolean", b |-> b]

Obj(f) == [t |-> "object", f |-> f]

Arr(a) == [t |-> "array", a |-> a]

\* The typeof operator: null and arrays are "object".
typeof(v) ==
    CASE v.t = "undefined" -> "undefined"
      [] v.t = "null" -> "object"
      [] v.t = "array" -> "object"
      [] v.t = "NaN" -> "number"
      [] v.t = "text" -> "string"
      [] OTHER -> v.t

\* ToBoolean: what !v, v || w, v && w and v ? a : b test.
Truthy(v) ==
    CASE v.t = "undefined" -> FALSE
      [] v.t = "null" -> FALSE
      [] v.t = "NaN" -> FALSE
      [] v.t = "string" -> Len(v.s) > 0
      [] v.t = "text" -> v.s # ""
      [] v.t = "number" -> v.n # 0
      [] v.t = "boolean" -> v.b
      [] OTHER -> TRUE

\* String.prototype.startsWith('0x')
startsWith0x(s) == Len(s) >= 2 /\ s[1] = "0" /\ s[2] = "x"

\* Array.prototype.length of a params value that is an array.
length(p) == Len(p.a)

(***************************************************************************)
(* types: ValidationCloudError and EthereumErrorCode.                      *)
(***************************************************************************)
INVALID_PARAMS == -32602

\* A thrown value.  cls is its class ("Object" for a value that is no Error),
\* message its message property (Error.prototype.message is '' when the
\* constructor was given undefined), isAxiosError and response what
\* axios.isAxiosError and the catch block of request() read.
Exception(cls, message, code, details, isAxiosError, response) ==
    [cls |-> cls,
     message |-> IF message.t = "undefined" /\ cls # "Object" THEN Text("") ELSE message,
     code |-> code, details |-> details,
     isAxiosError |-> isAxiosError, response |-> response]

ValidationCloudError(message, code, details) ==
    Exception("ValidationCloudError", message, code, details, FALSE, Undefined)

\* error instanceof Error
instanceofError(e) == e.cls # "Object"

\* validateParams returns normally.
NoError == [cls |-> "none"]

MsgBalanceParams == Text("eth_getBalance requires address and block parameters")

MsgBalanceAddress == Text("Invalid address parameter")

MsgTxHash == Text("Invalid transaction hash parameter")

MsgLogsFilter == Text("eth_getLogs requires a filter object parameter")

(***************************************************************************)
(* ValidationCloudAPI.validateParams: the error it throws, or NoError.     *)
(* params is Undefined (omitted) or an array.                              *)
(***************************************************************************)
\* The eth_getBalance check without the test of the '0x' prefix.
validateGetBalanceAnyString(params) ==
    IF ~Truthy(params) \/ length(params) # 2
    THEN ValidationCloudError(MsgBalanceParams, Num(INVALID_PARAMS), Undefined)
    ELSE IF typeof(params.a[1]) # "string"
    THEN ValidationCloudError(MsgBalanceAddress, Num(INVALID_PARAMS), Undefined)
    ELSE NoError

validateGetBalance(params) ==
    IF ~Truthy(params) \/ length(params) # 2
    THEN ValidationCloudError(MsgBalanceParams, Num(INVALID_PARAMS), Undefined)
    ELSE IF typeof(params.a[1]) # "string" \/ ~startsWith0x(params.a[1].s)
    THEN ValidationCloudError(MsgBalanceAddress, Num(INVALID_PARAMS), Undefined)
    ELSE NoError

\* The eth_getTransactionByHash check looking at params[0] only, whatever
\* follows it.
validateGetTransactionByHashAnyLength(params) ==
    IF \/ ~Truthy(params)
       \/ length(params) < 1
       \/ typeof(params.a[1]) # "string"
       \/ ~startsWith0x(params.a[1].s)
    THEN ValidationCloudError(MsgTxHash, Num(INVALID_PARAMS), Undefined)
    ELSE NoError

validateGetTransactionByHash(params) ==
    IF \/ ~Truthy(params)
       \/ length(params) # 1
       \/ typeof(params.a[1]) # "string"
       \/ ~startsWith0x(params.a[1].s)
    THEN ValidationCloudError(MsgTxHash, Num(INVALID_PARAMS), Undefined)
    ELSE NoError

validateGetLogs(params) ==
    IF \/ ~Truthy(params)
       \/ length(params) # 1
       \/ typeof(params.a[1]) # "object"
    THEN ValidationCloudError(MsgLogsFilter, Num(INVALID_PARAMS), Undefined)
    ELSE NoError

validateParams(method, params) ==
    CASE method = "eth_getBalance" -> validateGetBalance(params)
      [] method = "eth_getTransactionByHash" -> validateGetTransactionByHash(params)
      [] method = "eth_getLogs" -> validateGetLogs(params)
      [] OTHER -> NoError

(***************************************************************************)
(* utils: the primitive conversions.  A function that throws returns the   *)
(* value Throw(class, message) in place of a result.                       *)
(***************************************************************************)
Throw(cls, message) == [t |-> "throw", cls |-> cls, message |-> Text(message)]

IsThrow(v) == v.t = "throw"

HexDigits == <<"0", "1", "2", "3", "4", "5", "6", "7", "8", "9",
               "a", "b", "c", "d", "e", "f">>

UpperHexDigits == <<"0", "1", "2", "3", "4", "5", "6", "7", "8", "9",
                    "A", "B", "C", "D", "E", "F">>

IsHexDigit(c) == \E i \in 1..16 : HexDigits[i] = c \/ UpperHexDigits[i] = c

IsDecDigit(c) == \E i \in 1..10 : HexDigits[i] = c

DigitValue(c) == (CHOOSE i \in 1..16 : HexDigits[i] = c \/ UpperHexDigits[i] = c) - 1

\* The integer that the digits of s denote in the given base.
RECURSIVE DigitsValue(_, _)
DigitsValue(s, base) ==
    IF Len(s) = 0 THEN 0
    ELSE DigitsValue(SubSeq(s, 1, Len(s) - 1), base) * base + DigitValue(s[Len(s)])

\* The decimal digits of a natural number, as BigInt.prototype.toString and
\* Number.prototype.toString of an integer give them.
RECURSIVE DecimalDigits(_)
DecimalDigits(n) ==
    IF n < 10 THEN <<HexDigits[n + 1]>>
    ELSE DecimalDigits(n \div 10) \o <<HexDigits[(n % 10) + 1]>>

\* A BigInt is the sequence of its decimal digits, most significant first
\* and without leading zeros (<<0>> for zero), so that it has no width.
BigInt(d) == [t |-> "bigint", d |-> IF d = <<>> THEN <<0>> ELSE d]

\* The digits of ds * m + carry; ds is <<>> for zero.
RECURSIVE MulAdd(_, _, _)
MulAdd(ds, m, carry) ==
    IF Len(ds) = 0
    THEN IF carry = 0 THEN <<>>
         ELSE MulAdd(<<>>, m, carry \div 10) \o <<carry % 10>>
    ELSE MulAdd(SubSeq(ds, 1, Len(ds) - 1), m, (ds[Len(ds)] * m + carry) \div 10)
         \o <<(ds[Len(ds)] * m + carry) % 10>>

\* The decimal digits of the integer that the digits of s denote in the
\* given base (<<>> for zero).
RECURSIVE BigDigits(_, _)
BigDigits(s, base) ==
    IF Len(s) = 0 THEN <<>>
    ELSE MulAdd(BigDigits(SubSeq(s, 1, Len(s) - 1), base), base, DigitValue(s[Len(s)]))

\* BigInt.prototype.toString()
BigIntToString(b) == [i \in 1..Len(b.d) |-> HexDigits[b.d[i] + 1]]

\* String.prototype.replace('0x', ''): the first occurrence is removed.
replace0x(s) ==
    LET at == { i \in 1..(Len(s) - 1) : s[i] = "0" /\ s[i + 1] = "x" }
    IN  IF at = {} THEN s
        ELSE LET i == CHOOSE j \in at : \A k \in at : j <= k
             IN  SubSeq(s, 1, i - 1) \o SubSeq(s, i + 2, Len(s))

\* The longest prefix of s made of hexadecimal digits.
HexPrefix(s) ==
    LET stop == { i \in 1..Len(s) : ~IsHexDigit(s[i]) }
    IN  IF stop = {} THEN s
        ELSE SubSeq(s, 1, (CHOOSE j \in stop : \A k \in stop : j <= k) - 1)

\* parseInt(s, 16): an optional 0x / 0X prefix is skipped, the longest run of
\* hexadecimal digits is read, and no digit at all gives NaN.  (The strings of
\* the model hold no white space and no sign.)
parseInt16(s) ==
    LET body == IF Len(s) >= 2 /\ s[1] = "0" /\ s[2] \in {"x", "X"}
                THEN SubSeq(s, 3, Len(s)) ELSE s
        digits == HexPrefix(body)
    IN  IF Len(digits) = 0 THEN NaN ELSE Num(DigitsValue(digits, 16))

\* BigInt(s) of a string: '' is 0n, 0x / 0X introduces hexadecimal digits (at
\* least one), anything else must be decimal digits only; a SyntaxError
\* otherwise.
BigIntOfString(s) ==
    IF Len(s) = 0 THEN BigInt(<<>>)
    ELSE IF Len(s) >= 2 /\ s[1] = "0" /\ s[2] \in {"x", "X"}
    THEN IF Len(s) > 2 /\ \A i \in 3..Len(s) : IsHexDigit(s[i])
         THEN BigInt(BigDigits(SubSeq(s, 3, Len(s)), 16))
         ELSE Throw("SyntaxError", "Cannot convert to a BigInt")
    ELSE IF \A i \in 1..Len(s) : IsDecDigit(s[i])
    THEN BigInt(BigDigits(s, 10))
    ELSE Throw("SyntaxError", "Cannot convert to a BigInt")

\* BigInt(v) of any value the normalizer can hand to it: a string is
\* parsed, an object or an array is first turned into a string ('' for the
\* empty array, the element for an array of one string, text that is no
\* integer otherwise).
BigIntOf(v) ==
    CASE v.t = "string" -> BigIntOfString(v.s)
      [] v.t = "array" /\ Len(v.a) = 0 -> BigInt(<<>>)
      [] v.t = "array" /\ Len(v.a) = 1 /\ v.a[1].t = "string" -> BigIntOfString(v.a[1].s)
      [] v.t = "array" /\ Len(v.a) = 1 /\ v.a[1].t \in {"null", "undefined"} -> BigInt(<<>>)
      [] v.t = "number" -> BigInt(BigDigits(DecimalDigits(v.n), 10))
      [] v.t = "boolean" -> BigInt(IF v.b THEN <<1>> ELSE <<>>)
      [] OTHER -> Throw("SyntaxError", "Cannot convert to a BigInt")

\* s without its trailing zeros.
RECURSIVE StripTrailingZeros(_)
StripTrailingZeros(s) ==
    IF Len(s) > 1 /\ s[Len(s)] = "0"
    THEN StripTrailingZeros(SubSeq(s, 1, Len(s) - 1)) ELSE s

Zeros(n) == [i \in 1..n |-> "0"]

\* Number.prototype.toString of the number 0.sig * 10^point, sig being its
\* significant digits: exponential notation below 1e-6, positional
\* notation from there up to 1e21.
NumberString(sig, point) ==
    IF point <= -6
    THEN <<sig[1]>>
         \o (IF Len(sig) > 1 THEN <<".">> \o SubSeq(sig, 2, Len(sig)) ELSE <<>>)
         \o <<"e", "-">> \o DecimalDigits(1 - point)
    ELSE IF point <= 0 THEN <<"0", ".">> \o Zeros(-point) \o sig
    ELSE IF point >= Len(sig) THEN sig \o Zeros(point - Len(sig))
    ELSE SubSeq(sig, 1, point) \o <<".">> \o SubSeq(sig, point + 1, Len(sig))

\* (Number(wei) / 1e18).toString(): the digits of wei with the decimal point
\* moved 18 places.  The two roundings of the code (to a double, and of the
\* quotient) leave these digits as they are for a wei of at most 15
\* significant digits that a double holds exactly, which is the range the
\* model applies it to.
EtherString(wei) ==
    IF wei.d = <<0>> THEN <<"0">>
    ELSE NumberString(StripTrailingZeros(BigIntToString(wei)), Len(wei.d) - 18)

hexToDecimal(hex) ==
    IF ~Truthy(hex) THEN Num(0)
    ELSE IF hex.t # "string" THEN Throw("TypeError", "hex.replace is not a function")
    ELSE parseInt16(replace0x(hex.s))

\* hexToDecimalString with the digits handed to BigInt without the '0x' that
\* marks them as hexadecimal.
hexToDecimalStringNoRadix(hex) ==
    IF ~Truthy(hex) THEN Str(<<"0">>)
    ELSE IF hex.t # "string" THEN Throw("TypeError", "hex.replace is not a function")
    ELSE LET wei == BigIntOfString(replace0x(hex.s))
         IN  IF IsThrow(wei) THEN wei ELSE Str(BigIntToString(wei))

hexToDecimalString(hex) ==
    IF ~Truthy(hex) THEN Str(<<"0">>)
    ELSE IF hex.t # "string" THEN Throw("TypeError", "hex.replace is not a function")
    ELSE LET wei == BigIntOfString(<<"0", "x">> \o replace0x(hex.s))
         IN  IF IsThrow(wei) THEN wei ELSE Str(BigIntToString(wei))

weiToEther(weiHex) ==
    IF ~Truthy(weiHex) THEN Str(<<"0">>)
    ELSE LET wei == BigIntOf(weiHex)
         IN  IF IsThrow(wei) THEN wei ELSE Str(EtherString(wei))

(***************************************************************************)
(* utils: transformResponse and transformTransaction.                      *)
(***************************************************************************)
IndexKeys == <<"0", "1", "2", "3">>

\* The own enumerable properties of an object or an array, as { ...v } copies
\* them: an array contributes its elements under their indices.
OwnFields(v) ==
    IF v.t = "object" THEN v.f
    ELSE IF v.t = "array"
    THEN [k \in { IndexKeys[i] : i \in 1..Len(v.a) } |->
            v.a[CHOOSE i \in 1..Len(v.a) : IndexKeys[i] = k]]
    ELSE <<>>

\* v.k: undefined when the property is absent.
Get(v, k) ==
    IF v.t = "object" /\ k \in DOMAIN v.f THEN v.f[k] ELSE Undefined

\* { ...f, ...g }: the properties of g are added to, or replace, those of f.
Assign(f, g) ==
    [k \in (DOMAIN f) \cup (DOMAIN g) |-> IF k \in DOMAIN g THEN g[k] ELSE f[k]]

\* { ...f, [k]: x }
Put(f, k, x) == [j \in (DOMAIN f) \cup {k} |-> IF j = k THEN x ELSE f[j]]

\* The first exception raised while the listed expressions are evaluated in
\* order, or Undefined when none throws.
FirstThrow(xs) ==
    LET at == { i \in 1..Len(xs) : IsThrow(xs[i]) }
    IN  IF at = {} THEN Undefined
        ELSE xs[CHOOSE j \in at : \A k \in at : j <= k]

\* The conversion made whether or not the field is there: null becomes 0.
hexOrNullAlwaysConverted(c) == hexToDecimal(c)

\* c ? hexToDecimal(c) : null
hexOrNull(c) == IF Truthy(c) THEN hexToDecimal(c) ELSE Null

\* c && hexToDecimal(c), as far as it can throw
hexIfPresent(c) == IF Truthy(c) THEN hexToDecimal(c) ELSE Undefined

\* The field written in every case, null standing in for a missing one.
presentFieldOrNull(c, k) ==
    IF Truthy(c) THEN Put(<<>>, k, hexToDecimal(c)) ELSE Put(<<>>, k, Null)

\* c && { [k]: hexToDecimal(c) }, as the spread that follows sees it: a falsy
\* c contributes no property.
presentField(c, k) == IF Truthy(c) THEN Put(<<>>, k, hexToDecimal(c)) ELSE <<>>

\* The written properties with gas treated like gasPrice: null when the
\* source has none.
transactionFieldsGasNullable(tx) ==
    [blockNumber |-> hexOrNull(Get(tx, "blockNumber")),
     transactionIndex |-> hexOrNull(Get(tx, "transactionIndex")),
     gas |-> hexOrNull(Get(tx, "gas")),
     gasPrice |-> hexOrNull(Get(tx, "gasPrice")),
     nonce |-> hexToDecimal(Get(tx, "nonce")),
     value |-> Obj([wei |-> hexToDecimalString(Get(tx, "value")),
                    ether |-> weiToEther(Get(tx, "value"))])]

\* The properties transformTransaction always writes.
transactionFields(tx) ==
    [blockNumber |-> hexOrNull(Get(tx, "blockNumber")),
     transactionIndex |-> hexOrNull(Get(tx, "transactionIndex")),
     gas |-> hexToDecimal(Get(tx, "gas")),
     gasPrice |-> hexOrNull(Get(tx, "gasPrice")),
     nonce |-> hexToDecimal(Get(tx, "nonce")),
     value |-> Obj([wei |-> hexToDecimalString(Get(tx, "value")),
                    ether |-> weiToEther(Get(tx, "value"))])]

\* The value of an expression whose evaluation raised thrown (Undefined when
\* nothing was raised) and would otherwise have given value.
orThrow(thrown, value) == IF IsThrow(thrown) THEN thrown ELSE value

\* The object literal of transformTransaction, given the properties it
\* always writes.
transactionObject(tx, written) ==
    orThrow(FirstThrow(<<written.blockNumber, written.transactionIndex, written.gas,
                         written.gasPrice, written.nonce, written.value.f.wei,
                         written.value.f.ether,
                         hexIfPresent(Get(tx, "gasUsed")),
                         hexIfPresent(Get(tx, "cumulativeGasUsed")),
                         hexIfPresent(Get(tx, "effectiveGasPrice"))>>),
            Obj(Assign(Assign(Assign(Assign(OwnFields(tx), written),
                                     presentField(Get(tx, "gasUsed"), "gasUsed")),
                              presentField(Get(tx, "cumulativeGasUsed"),
                                           "cumulativeGasUsed")),
                       presentField(Get(tx, "effectiveGasPrice"), "effectiveGasPrice"))))

transformTransaction(tx) ==
    IF ~Truthy(tx) \/ typeof(tx) # "object" THEN tx
    ELSE transactionObject(tx, transactionFields(tx))

\* The array that map() returns, unless one of the callbacks threw.
mappedArray(mapped) == orThrow(FirstThrow(mapped), Arr(mapped))

IsObjectElement(tx) == typeof(tx) = "object"

\* The transactions with only the objects kept and transformed: the bare
\* hashes are dropped.
mapTransactionsObjectsOnly(transactions) ==
    IF transactions.t # "array"
    THEN Throw("TypeError", "result.transactions.map is not a function")
    ELSE mappedArray([i \in 1..Len(SelectSeq(transactions.a, IsObjectElement)) |->
                         transformTransaction(SelectSeq(transactions.a, IsObjectElement)[i])])

\* result.transactions.map(tx => typeof tx === 'object' ? transformTransaction(tx) : tx)
mapTransactions(transactions) ==
    IF transactions.t # "array"
    THEN Throw("TypeError", "result.transactions.map is not a function")
    ELSE mappedArray([i \in 1..Len(transactions.a) |->
                         IF typeof(transactions.a[i]) = "object"
                         THEN transformTransaction(transactions.a[i])
                         ELSE transactions.a[i]])

\* The properties the block branch of transformResponse always writes.
blockFields(result) ==
    [number |-> hexToDecimal(Get(result, "number")),
     gasLimit |-> hexToDecimal(Get(result, "gasLimit")),
     gasUsed |-> hexToDecimal(Get(result, "gasUsed")),
     timestamp |-> hexToDecimal(Get(result, "timestamp")),
     transactions |-> mapTransactions(Get(result, "transactions"))]

\* The object literal of the block branch, given the properties it writes.
blockObject(result, written) ==
    orThrow(FirstThrow(<<written.number, written.gasLimit, written.gasUsed,
                         written.timestamp, written.transactions>>),
            Obj(Assign(OwnFields(result), written)))

transformBlock(result) ==
    IF typeof(result) = "object" THEN blockObject(result, blockFields(result))
    ELSE result

\* The object literal of the eth_getBalance branch.
balanceObject(wei, ether) ==
    orThrow(FirstThrow(<<wei, ether>>), Obj([wei |-> wei, ether |-> ether]))

transformBalance(result) ==
    balanceObject(hexToDecimalString(result), weiToEther(result))

\* transformResponse with a default branch that converts a string result as
\* a quantity.
transformResponseConvertsByDefault(method, result) ==
    IF ~Truthy(result) THEN result
    ELSE CASE method \in {"eth_blockNumber", "eth_gasPrice", "eth_estimateGas"} ->
                hexToDecimal(result)
           [] method = "eth_getBalance" -> transformBalance(result)
           [] method \in {"eth_getBlockByNumber", "eth_getBlockByHash"} ->
                transformBlock(result)
           [] method \in {"eth_getTransactionByHash", "eth_getTransactionReceipt"} ->
                transformTransaction(result)
           [] OTHER -> IF result.t = "string" THEN hexToDecimal(result) ELSE result

transformResponse(method, result) ==
    IF ~Truthy(result) THEN result
    ELSE CASE method \in {"eth_blockNumber", "eth_gasPrice", "eth_estimateGas"} ->
                hexToDecimal(result)
           [] method = "eth_getBalance" -> transformBalance(result)
           [] method \in {"eth_getBlockByNumber", "eth_getBlockByHash"} ->
                transformBlock(result)
           [] method \in {"eth_getTransactionByHash", "eth_getTransactionReceipt"} ->
                transformTransaction(result)
           [] OTHER -> result

(***************************************************************************)
(* ValidationCloudAPI: the client.                                         *)
(*                                                                         *)
(* calls[c] is the c-th invocation of request() or testConnection(): idle  *)
(* before it is made, awaiting between the POST and its settlement, done   *)
(* after.  posts is what the transport has been asked to send, in order.   *)
(* The fields post (how the POST of the call stands), raw (the response    *)
(* body the transport delivered) and caught (the exception the catch block *)
(* received) record the history of the call.                               *)
(***************************************************************************)
Calls == 1..MaxCalls

\* No function of utils has been applied on its own.
NotEvaluated == [fn |-> "none"]

NoOutcome == [kind |-> "none", value |-> Undefined]

Returned(data) == [kind |-> "returned", value |-> data]

Threw(error) == [kind |-> "threw", value |-> error]

IdleCall ==
    [pc |-> "idle", via |-> "none", method |-> "none", params |-> Undefined,
     id |-> 0, post |-> "none", raw |-> Undefined, caught |-> NoError,
     outcome |-> NoOutcome, connected |-> "none"]

\* A generator that hands out the same id again (as a clock read twice within
\* one tick would).
sameMessageId(id) == id

\* this.messageId++
nextMessageId(id) == id + 1

\* The envelope with params passed on as they came, omitted or not.
requestBodyNoDefault(id, method, params) ==
    [jsonrpc |-> "2.0", id |-> id, method |-> method, params |-> params]

\* The JSON-RPC envelope of request().
requestBody(id, method, params) ==
    [jsonrpc |-> "2.0", id |-> id, method |-> method,
     params |-> IF Truthy(params) THEN params ELSE Arr(<<>>)]

isAxiosError(error) == error.isAxiosError

\* A catch block that wraps AxiosErrors only and rethrows the rest as caught.
catchErrorRethrows(error) ==
    IF isAxiosError(error)
    THEN ValidationCloudError(
             IF Truthy(Get(Get(error.response, "data"), "message"))
             THEN Get(Get(error.response, "data"), "message") ELSE error.message,
             Get(error.response, "status"),
             Get(error.response, "data"))
    ELSE error

\* The catch block with the code of the error taken from the response body
\* when the body has one.
catchErrorBodyCode(error) ==
    IF isAxiosError(error)
    THEN LET data == Get(error.response, "data")
             bodyMessage == Get(data, "message")
         IN  ValidationCloudError(
                 IF Truthy(bodyMessage) THEN bodyMessage ELSE error.message,
                 IF Truthy(Get(data, "code")) THEN Get(data, "code")
                 ELSE Get(error.response, "status"),
                 data)
    ELSE IF error.cls = "ValidationCloudError" THEN error
    ELSE ValidationCloudError(
             IF instanceofError(error) THEN error.message ELSE Text("Unknown error"),
             Undefined, Undefined)

\* The catch block with a status of 0 standing in for a missing response.
catchErrorNoResponseStatus(error) ==
    IF isAxiosError(error)
    THEN LET data == Get(error.response, "data")
             bodyMessage == Get(data, "message")
         IN  ValidationCloudError(
                 IF Truthy(bodyMessage) THEN bodyMessage ELSE error.message,
                 IF error.response.t = "undefined" THEN Num(0)
                 ELSE Get(error.response, "status"),
                 data)
    ELSE IF error.cls = "ValidationCloudError" THEN error
    ELSE ValidationCloudError(
             IF instanceofError(error) THEN error.message ELSE Text("Unknown error"),
             Undefined, Undefined)

\* The catch block of request(): what it throws for what it caught.
catchError(error) ==
    IF isAxiosError(error)
    THEN LET data == Get(error.response, "data")
             bodyMessage == Get(data, "message")
         IN  ValidationCloudError(
                 IF Truthy(bodyMessage) THEN bodyMessage ELSE error.message,
                 Get(error.response, "status"),
                 data)
    ELSE IF error.cls = "ValidationCloudError" THEN error
    ELSE ValidationCloudError(
             IF instanceofError(error) THEN error.message ELSE Text("Unknown error"),
             Undefined, Undefined)

\* The exception object of a Throw raised inside the try block.
Raised(thrown) ==
    Exception(thrown.cls, thrown.message, Undefined, Undefined, FALSE, Undefined)

\* response.data.result = transformResponse(...): the exception raised, if
\* any; otherwise the body with its result replaced.
withResult(data, result) ==
    IF IsThrow(result) THEN Threw(Raised(result))
    ELSE Returned(Obj(Put(OwnFields(data), "result", result)))

\* request() from the resolution of the POST, with response body data, to
\* the return statement: what the try block returns or throws.
afterPost(method, data) ==
    IF data.t \in {"undefined", "null"}
    THEN Threw(Raised(Throw("TypeError",
                            "Cannot read properties of undefined (reading 'result')")))
    ELSE IF Get(data, "result").t = "undefined" THEN Returned(data)
    ELSE withResult(data, transformResponse(method, Get(data, "result")))

\* request() as a whole from the settlement of the POST: an exception of the
\* try block goes through the catch block.
requestOutcome(tried) ==
    IF tried.kind = "threw" THEN Threw(catchError(tried.value)) ELSE tried

\* testConnection() without its catch block: the exception of request()
\* leaves it.
connectionResultUncaught(outcome) ==
    IF outcome.kind = "returned" THEN "true" ELSE "threw"

\* testConnection(): true when the awaited request() returned, false from
\* the catch block.
connectionResult(outcome) ==
    IF outcome.kind = "returned" THEN "true" ELSE "false"

\* The end of a call: request() returns or throws, and testConnection(),
\* when it made the call, turns that into its boolean.
Settle(c, post, raw, caught, outcome) ==
    calls' = [calls EXCEPT ![c] =
                 [@ EXCEPT !.pc = "done", !.post = post, !.raw = raw,
                           !.caught = caught,
                           !.outcome = outcome,
                           !.connected = IF calls[c].via = "testConnection"
                                         THEN connectionResult(outcome)
                                         ELSE "none"]]

\* request() with the envelope built and posted before the params are
\* validated.
StartRequestPostsFirst(c, via, method, params) ==
    /\ calls[c].pc = "idle"
    /\ \A b \in 1..(c - 1) : calls[b].pc # "idle"
    /\ posts' = Append(posts, [call |-> c,
                               body |-> requestBody(messageId, method, params)])
    /\ messageId' = nextMessageId(messageId)
    /\ LET verdict == validateParams(method, params)
           started == [calls[c] EXCEPT !.via = via, !.method = method,
                                       !.params = params, !.id = messageId]
       IN  calls' = [calls EXCEPT ![c] =
                        IF verdict # NoError
                        THEN [started EXCEPT !.pc = "done", !.caught = verdict,
                                             !.outcome = requestOutcome(Threw(verdict))]
                        ELSE [started EXCEPT !.pc = "awaiting", !.post = "pending"]]

\* request() with the id taken before the params are validated, so that a
\* rejected call uses one up.
StartRequestCountsRejected(c, via, method, params) ==
    /\ calls[c].pc = "idle"
    /\ \A b \in 1..(c - 1) : calls[b].pc # "idle"
    /\ messageId' = nextMessageId(messageId)
    /\ LET verdict == validateParams(method, params)
           started == [calls[c] EXCEPT !.via = via, !.method = method,
                                       !.params = params]
       IN  IF verdict # NoError
           THEN /\ calls' = [calls EXCEPT ![c] =
                                [started EXCEPT
                                    !.pc = "done", !.caught = verdict,
                                    !.outcome = requestOutcome(Threw(verdict)),
                                    !.connected = IF via = "testConnection"
                                                  THEN connectionResult(Threw(verdict))
                                                  ELSE "none"]]
                /\ UNCHANGED posts
           ELSE /\ calls' = [calls EXCEPT ![c] =
                                [started EXCEPT !.pc = "awaiting", !.id = messageId,
                                                !.post = "pending"]]
                /\ posts' = Append(posts, [call |-> c,
                                           body |-> requestBody(messageId, method, params)])

\* request() up to its await: validation, then the envelope and the POST.
StartRequest(c, via, method, params) ==
    /\ calls[c].pc = "idle"
    /\ \A b \in 1..(c - 1) : calls[b].pc # "idle"
    /\ LET verdict == validateParams(method, params)
           started == [calls[c] EXCEPT !.via = via, !.method = method,
                                       !.params = params]
       IN  IF verdict # NoError
           THEN /\ calls' = [calls EXCEPT ![c] =
                                [started EXCEPT
                                    !.pc = "done", !.caught = verdict,
                                    !.outcome = requestOutcome(Threw(verdict)),
                                    !.connected = IF via = "testConnection"
                                                  THEN connectionResult(Threw(verdict))
                                                  ELSE "none"]]
                /\ UNCHANGED <<messageId, posts>>
           ELSE /\ calls' = [calls EXCEPT ![c] =
                                [started EXCEPT !.pc = "awaiting", !.id = messageId,
                                                !.post = "pending"]]
                /\ posts' = Append(posts, [call |-> c,
                                           body |-> requestBody(messageId, method, params)])
                /\ messageId' = nextMessageId(messageId)

(***************************************************************************)
(* The callers and the transport.                                          *)
(***************************************************************************)
Address == Str(<<"0", "x", "a">>)

\* What callers ask for: each validated method with params that pass and
\* params that fail, and unvalidated methods without and with params.
Requests ==
    { [method |-> "eth_getBalance", params |-> Arr(<<Address, Str(<<"l">>)>>)],
      [method |-> "eth_getBalance", params |-> Arr(<<Str(<<"a">>), Str(<<"l">>)>>)],
      [method |-> "eth_getTransactionByHash", params |-> Arr(<<Address>>)],
      [method |-> "eth_getTransactionByHash", params |-> Arr(<<Str(<<"a">>)>>)],
      [method |-> "eth_getLogs", params |-> Arr(<<Obj([address |-> Address])>>)],
      [method |-> "eth_getLogs", params |-> Arr(<<Str(<<"a">>)>>)],
      [method |-> "eth_blockNumber", params |-> Undefined],
      [method |-> "eth_call", params |-> Arr(<<Num(1), Null>>)] }

\* Results a node returns: a hex quantity, null (nothing found), and a
\* transaction object.
NodeResults ==
    { Str(<<"0", "x", "1", "f">>),
      Null,
      Obj([hash |-> Address, gas |-> Str(<<"0", "x", "1", "0">>),
           value |-> Str(<<"0", "x", "1">>)]) }

\* Bodies of the responses the POST resolves with: a result, a JSON-RPC
\* error of the node (HTTP 200), or no body at all.
ResponseBodies(id) ==
    { Obj([jsonrpc |-> Text("2.0"), id |-> Num(id), result |-> r]) : r \in NodeResults }
    \cup { Obj([jsonrpc |-> Text("2.0"), id |-> Num(id),
                error |-> Obj([code |-> Num(-32601),
                               message |-> Text("Method not found")])]),
           Undefined }

\* What the POST rejects with: an AxiosError with a response whose body has
\* a message, one whose body has none, one without a response, an Error
\* that is no AxiosError, an Error constructed without a message (its
\* message is the empty string), and a value that is no Error.
Rejections ==
    { Exception("AxiosError", Text("Request failed with status code 400"), Undefined,
                Undefined, TRUE,
                Obj([status |-> Num(400),
                     data |-> Obj([message |-> Text("Invalid request"),
                                   code |-> Num(-32600)])])),
      Exception("AxiosError", Text("Request failed with status code 500"), Undefined,
                Undefined, TRUE,
                Obj([status |-> Num(500), data |-> Obj([code |-> Num(-32000)])])),
      Exception("AxiosError", Text("Network Error"), Undefined, Undefined, TRUE,
                Undefined),
      Exception("Error", Text("Connection failed"), Undefined, Undefined, FALSE,
                Undefined),
      Exception("Error", Undefined, Undefined, Undefined, FALSE, Undefined),
      Exception("Object", Undefined, Undefined, Undefined, FALSE,
                Obj([status |-> Num(400),
                     data |-> Obj([message |-> Text("Invalid request")])])) }

Request(c) ==
    /\ \E r \in Requests : StartRequest(c, "request", r.method, r.params)
    /\ UNCHANGED evaluation

TestConnection(c) ==
    /\ StartRequest(c, "testConnection", "eth_blockNumber", Undefined)
    /\ UNCHANGED evaluation

\* The try block of call c ended as tried.
Finish(c, post, raw, tried) ==
    Settle(c, post, raw, IF tried.kind = "threw" THEN tried.value ELSE NoError,
           requestOutcome(tried))

\* The POST of call c resolves, and its result is normalized under the
\* method of the envelope sent last (a method kept in one place for all
\* calls).
PostResolveLatestMethod(c) ==
    /\ calls[c].pc = "awaiting"
    /\ \E data \in ResponseBodies(calls[c].id) :
          Finish(c, "resolved", data, afterPost(posts[Len(posts)].body.method, data))
    /\ UNCHANGED <<messageId, posts, evaluation>>

\* The POST of call c resolves.
PostResolve(c) ==
    /\ calls[c].pc = "awaiting"
    /\ \E data \in ResponseBodies(calls[c].id) :
          Finish(c, "resolved", data, afterPost(calls[c].method, data))
    /\ UNCHANGED <<messageId, posts, evaluation>>

\* The POST of call c rejects and is sent again.
PostRejectRetries(c) ==
    /\ calls[c].pc = "awaiting"
    /\ Len(posts) < 2 * MaxCalls
    /\ posts' = Append(posts, [call |-> c,
                               body |-> requestBody(calls[c].id, calls[c].method,
                                                    calls[c].params)])
    /\ UNCHANGED <<messageId, calls, evaluation>>

\* The POST of call c rejects.
PostReject(c) ==
    /\ calls[c].pc = "awaiting"
    /\ \E error \in Rejections : Finish(c, "rejected", Undefined, Threw(error))
    /\ UNCHANGED <<messageId, posts, evaluation>>

Init ==
    /\ messageId = 1
    /\ calls = [c \in Calls |-> IdleCall]
    /\ posts = <<>>
    /\ evaluation = NotEvaluated

Next ==
    \E c \in Calls :
        \/ Request(c)
        \/ TestConnection(c)
        \/ PostResolve(c)
        \/ PostReject(c)

Spec == Init /\ [][Next]_vars

(***************************************************************************)
(* A single call of request() up to its await, on every method of interest *)
(* and every params value of up to MaxParams elements.                     *)
(***************************************************************************)
ValidatedMethods == {"eth_getBalance", "eth_getTransactionByHash", "eth_getLogs"}

AnyMethods == ValidatedMethods \cup {"eth_blockNumber", "eth_call"}

\* Elements a caller can put in a params list: strings with and without the
\* '0x' prefix, the empty string, a number, null, a boolean, a filter object,
\* an array.
ParamElements ==
    { Str(<<"0", "x", "a">>), Str(<<"0", "x">>), Str(<<"a", "0", "x">>),
      Str(<<"0">>), Str(<<>>), Num(1), Null, Bool(TRUE),
      Obj([fromBlock |-> Str(<<"0", "x", "1">>)]),
      Arr(<<Str(<<"0", "x", "a">>)>>) }

SeqsUpTo(S, n) == UNION { [1..k -> S] : k \in 0..n }

AnyParams == {Undefined} \cup { Arr(a) : a \in SeqsUpTo(ParamElements, MaxParams) }

AnyRequest ==
    /\ \E m \in AnyMethods, p \in AnyParams : StartRequest(1, "request", m, p)
    /\ UNCHANGED evaluation

SpecPrologue == Init /\ [][AnyRequest]_vars

(***************************************************************************)
(* The conversions of utils applied on their own, once, to one input.      *)
(***************************************************************************)
Conversions == {"hexToDecimal", "hexToDecimalString", "weiToEther"}

\* Characters of the short inputs: digits in both cases, the x of the
\* prefix, and a character that is no digit.
HexAlphabet == {"0", "1", "9", "a", "F", "x", "z"}

ShortInputs ==
    {Null, Undefined} \cup { Str(s) : s \in SeqsUpTo(HexAlphabet, MaxHexLen) }

Repeat(c, n) == [i \in 1..n |-> c]

\* Quantities of up to MaxBigDigits hexadecimal digits, with and without
\* the prefix: all digits f, and a one followed by zeros.
LongInputs ==
    UNION { { Str(<<"0", "x">> \o Repeat("f", n)), Str(Repeat("f", n)),
              Str(<<"0", "x", "1">> \o Repeat("0", n - 1)) } : n \in 5..MaxBigDigits }

ConversionInputs(fn) ==
    IF fn = "hexToDecimalString" THEN ShortInputs \cup LongInputs ELSE ShortInputs

Converted(fn, hex) ==
    CASE fn = "hexToDecimal" -> hexToDecimal(hex)
      [] fn = "hexToDecimalString" -> hexToDecimalString(hex)
      [] fn = "weiToEther" -> weiToEther(hex)

Convert(fn) ==
    /\ evaluation = NotEvaluated
    /\ \E hex \in ConversionInputs(fn) :
          evaluation' = [fn |-> fn, input |-> hex, output |-> Converted(fn, hex)]
    /\ UNCHANGED <<messageId, calls, posts>>

NextConversions == \E fn \in Conversions : Convert(fn)

SpecConversions == Init /\ [][NextConversions]_vars

(***************************************************************************)
(* transformResponse applied on its own, once, to one method and result.   *)
(***************************************************************************)
\* What a node puts in a field that holds a quantity: a hex quantity, null
\* (a pending transaction), the empty string, the bare prefix, and a number
\* that is no string.
FieldValues == {Str(<<"0", "x", "1", "f">>), Null, Str(<<>>), Str(<<"0", "x">>), Num(5)}

\* The objects that have at most n of the keys, each with a field value.
ObjectsOver(keys, n) ==
    { Obj(f) : f \in UNION { [K -> FieldValues] :
                               K \in { S \in SUBSET keys : Cardinality(S) <= n } } }

TransactionKeys ==
    {"hash", "blockNumber", "transactionIndex", "gas", "gasPrice", "nonce", "value",
     "gasUsed", "cumulativeGasUsed", "effectiveGasPrice"}

\* The transactions of the tests of utils: a mined one and a pending one.
SampleTransactions ==
    { Obj([blockNumber |-> Str(<<"0", "x", "a">>),
           transactionIndex |-> Str(<<"0", "x", "1">>),
           gas |-> Str(<<"0", "x", "5", "2", "0", "8">>),
           gasPrice |-> Str(<<"0", "x", "4", "a", "8", "1">>),
           nonce |-> Str(<<"0", "x", "0">>),
           value |-> Str(<<"0", "x", "d", "e", "0", "b", "6", "b", "3", "a", "7", "6",
                           "4", "0", "0", "0", "0">>)]),
      Obj([blockNumber |-> Null, transactionIndex |-> Null,
           gas |-> Str(<<"0", "x", "5", "2", "0", "8">>), gasPrice |-> Null,
           nonce |-> Str(<<"0", "x", "0">>), value |-> Str(<<"0", "x", "0">>)]),
      Obj([transactionHash |-> Str(<<"0", "x", "a">>),
           blockNumber |-> Str(<<"0", "x", "a">>),
           gasUsed |-> Str(<<"0", "x", "5", "2", "0", "8">>),
           cumulativeGasUsed |-> Str(<<"0", "x", "f", "f">>),
           effectiveGasPrice |-> Str(<<"0", "x", "1">>)]) }

Transactions == ObjectsOver(TransactionKeys, MaxFields) \cup SampleTransactions

\* Elements of the transactions array of a block: a bare hash, transaction
\* objects, one of them with a value that does not convert, and null.
TransactionElements ==
    { Str(<<"0", "x", "a">>),
      Obj([hash |-> Str(<<"0", "x", "a">>), gas |-> Str(<<"0", "x", "1", "f">>)]),
      Obj([blockNumber |-> Null, gasUsed |-> Str(<<"0", "x", "1">>)]),
      Obj([value |-> Str(<<"0", "x">>)]),
      Null }

BlockKeys == {"hash", "number", "gasLimit", "gasUsed", "timestamp"}

\* What the transactions field of a block holds, when it is there.
TransactionLists ==
    { Arr(a) : a \in SeqsUpTo(TransactionElements, MaxTransactions) }
    \cup {Null, Str(<<"0", "x", "a">>)}

\* obj with the field transactions set.
WithTransactions(obj, transactions) == Obj(Put(obj.f, "transactions", transactions))

\* Blocks without transactions or with none, blocks of at most one other
\* field with every transactions list, and the block of the tests.
Blocks ==
    ObjectsOver(BlockKeys, MaxFields)
    \cup { WithTransactions(b, Arr(<<>>)) : b \in ObjectsOver(BlockKeys, MaxFields) }
    \cup { WithTransactions(b, t) : b \in ObjectsOver(BlockKeys, 1), t \in TransactionLists }
    \cup { Obj([number |-> Str(<<"0", "x", "a">>),
                gasLimit |-> Str(<<"0", "x", "1", "2", "3", "4">>),
                gasUsed |-> Str(<<"0", "x", "1", "0", "0", "0">>),
                timestamp |-> Str(<<"0", "x", "6", "0", "a", "d">>),
                transactions |-> Arr(<<>>)]) }

\* Results that are no block and no transaction: quantities, falsy values,
\* and values of other types.
PlainResults ==
    { Str(<<"0", "x", "a">>), Str(<<"0", "x", "0">>), Str(<<"0", "x", "1", "F">>),
      Str(<<"f", "f">>), Str(<<"0", "x">>), Str(<<"z">>), Str(<<>>),
      Null, Num(0), Num(5), Bool(FALSE), Bool(TRUE),
      Arr(<<>>), Arr(<<Str(<<"0", "x", "a">>)>>),
      Obj([balance |-> Str(<<"0", "x", "1">>)]) }

\* The balances of the tests of utils: one ether and a tenth of it, in wei.
SampleBalances ==
    { Str(<<"0", "x", "d", "e", "0", "b", "6", "b", "3", "a", "7", "6", "4", "0", "0", "0",
            "0">>),
      Str(<<"0", "x", "1", "6", "3", "4", "5", "7", "8", "5", "d", "8", "a", "0", "0", "0",
            "0">>) }

QuantityMethods == {"eth_blockNumber", "eth_gasPrice", "eth_estimateGas"}

BlockMethods == {"eth_getBlockByNumber", "eth_getBlockByHash"}

TransactionMethods == {"eth_getTransactionByHash", "eth_getTransactionReceipt"}

OtherMethods == {"eth_getTransactionCount", "eth_call", "eth_getLogs", "eth_chainId"}

\* transformResponse(method, result) is evaluated.
Normalize(method, result) ==
    /\ evaluation' = [fn |-> "transformResponse", method |-> method, input |-> result,
                      output |-> transformResponse(method, result)]
    /\ UNCHANGED <<messageId, calls, posts>>

NormalizeQuantity ==
    /\ evaluation = NotEvaluated
    /\ \E method \in QuantityMethods, result \in PlainResults :
          Normalize(method, result)

NormalizeBalance ==
    /\ evaluation = NotEvaluated
    /\ \E result \in PlainResults \cup SampleBalances \cup SampleTransactions
                      \cup {Str(<<"1", "0">>)} :
          Normalize("eth_getBalance", result)

NormalizeBlock ==
    /\ evaluation = NotEvaluated
    /\ \E method \in BlockMethods, result \in PlainResults \cup Blocks :
          Normalize(method, result)

NormalizeTransaction ==
    /\ evaluation = NotEvaluated
    /\ \E method \in TransactionMethods, result \in PlainResults \cup Transactions :
          Normalize(method, result)

NormalizeOther ==
    /\ evaluation = NotEvaluated
    /\ \E method \in OtherMethods, result \in PlainResults \cup SampleTransactions :
          Normalize(method, result)

NextNormalizer ==
    \/ NormalizeQuantity
    \/ NormalizeBalance
    \/ NormalizeBlock
    \/ NormalizeTransaction
    \/ NormalizeOther

SpecNormalizer == Init /\ [][NextNormalizer]_vars

(***************************************************************************)
(* The construction of the client, and the ethereum_request tool of the    *)
(* server in front of it: one construction, or one tool call from its      *)
(* arrival to its result.                                                  *)
(***************************************************************************)
DEFAULT_BASE_URL == "https://mainnet.ethereum.validationcloud.io/v1"

DEFAULT_TIMEOUT == 30000

\* ${v} in a template string, for a string, undefined or null.
templateString(v) == IF v.t = "text" THEN v.s ELSE v.t

\* The argument of axios.create with the timeout passed on as configured.
axiosConfigNoDefaultTimeout(config) ==
    Obj([baseURL |->
             Text(templateString(IF Truthy(Get(config, "baseURL"))
                                 THEN Get(config, "baseURL")
                                 ELSE Text(DEFAULT_BASE_URL))
                  \o "/" \o templateString(Get(config, "apiKey"))),
         timeout |-> Get(config, "timeout"),
         headers |-> Obj([k \in {"Content-Type"} |-> Text("application/json")])])

\* The argument of axios.create.
axiosConfig(config) ==
    Obj([baseURL |->
             Text(templateString(IF Truthy(Get(config, "baseURL"))
                                 THEN Get(config, "baseURL")
                                 ELSE Text(DEFAULT_BASE_URL))
                  \o "/" \o templateString(Get(config, "apiKey"))),
         timeout |-> IF Truthy(Get(config, "timeout")) THEN Get(config, "timeout")
                     ELSE Num(DEFAULT_TIMEOUT),
         headers |-> Obj([k \in {"Content-Type"} |-> Text("application/json")])])

\* new ValidationCloudAPI(config): what it returns or throws, and the
\* arguments of the calls of axios.create it made, in order.
constructor(config) ==
    IF ~Truthy(Get(config, "apiKey"))
    THEN [output |-> Threw(Exception("Error", Text("API key is required"), Undefined,
                                     Undefined, FALSE, Undefined)),
          created |-> <<>>]
    ELSE [output |-> Returned(Obj([messageId |-> Num(1)])),
          created |-> <<axiosConfig(config)>>]

\* new McpError(ErrorCode.<code>, message), its code by name.
McpError(code, message) ==
    Exception("McpError", Text(message), Text(code), Undefined, FALSE, Undefined)

\* The checks of the handler on the arguments of ethereum_request: the
\* McpError it throws, or NoError.
argumentsError(arguments) ==
    IF ~Truthy(arguments) \/ typeof(arguments) # "object"
    THEN McpError("InvalidParams", "Invalid arguments for ethereum_request")
    ELSE IF typeof(Get(arguments, "method")) # "string"
    THEN McpError("InvalidParams", "Method must be a string")
    ELSE NoError

\* The argument of request() the handler builds.
toolRequest(arguments) ==
    [method |-> Get(arguments, "method").s,
     params |-> IF Truthy(Get(arguments, "params")) THEN Get(arguments, "params")
                ELSE Arr(<<>>)]

\* The try and catch of the handler with every exception turned into an
\* error result.
toolResultOfEveryError(outcome) ==
    IF outcome.kind = "returned"
    THEN Returned(Obj([toolResult |-> outcome.value]))
    ELSE Returned(Obj([content |-> Arr(<<Obj([type |-> Text("text"),
                                         text |-> Text("Validation Cloud API error: "
                                                       \o templateString(outcome.value.message))])>>),
                       isError |-> Bool(TRUE)]))

\* The try and catch of the handler around the awaited request(): what the
\* handler returns or throws for what request() returned or threw.
toolResult(outcome) ==
    IF outcome.kind = "returned"
    THEN Returned(Obj([toolResult |-> outcome.value]))
    ELSE IF outcome.value.cls = "ValidationCloudError"
    THEN Returned(Obj([content |-> Arr(<<Obj([type |-> Text("text"),
                                         text |-> Text("Validation Cloud API error: "
                                                       \o templateString(outcome.value.message))])>>),
                       isError |-> Bool(TRUE)]))
    ELSE outcome

\* Configurations: apiKey, baseURL and timeout each absent, falsy or given.
Configs ==
    { Obj([k \in keys |-> config[k]]) :
        keys \in SUBSET {"apiKey", "baseURL", "timeout"},
        config \in [apiKey : {Text(""), Text("test-api-key")},
                    baseURL : {Text(""), Text("https://custom.example/v2")},
                    timeout : {Num(0), Num(5000)}] }

ToolNames == {"ethereum_request", "eth_blockNumber"}

\* Arguments of a tool call: none, values that are no object, objects
\* without a string for method, and the requests of the callers with and
\* without params.
ToolArguments ==
    { Undefined, Null, Text("eth_blockNumber"), Num(1), Arr(<<>>), Obj(<<>>),
      Obj([method |-> Num(1)]), Obj([method |-> Null, params |-> Arr(<<>>)]),
      Obj([method |-> Text("eth_blockNumber")]),
      Obj([method |-> Text("eth_getBalance")]) }
    \cup { Obj([method |-> Text(r.method), params |-> r.params]) : r \in Requests }

\* The state of a tool call that ended with output, having called
\* request() as call c (0 when it did not).
ToolCall(name, arguments, c, output) ==
    [fn |-> "callTool", name |-> name, input |-> arguments, call |-> c,
     output |-> output]

\* The state of the tool call when call c has got as far as calls says.
ToolCallOf(name, arguments, c, call) ==
    ToolCall(name, arguments, c,
             IF call.pc = "done" THEN toolResult(call.outcome) ELSE NoOutcome)

\* The handler of CallToolRequestSchema up to its await, or to its end
\* when it does not get there.
HandleCallTool(name, arguments) ==
    IF name # "ethereum_request"
    THEN /\ evaluation' = ToolCall(name, arguments, 0,
                                   Threw(McpError("MethodNotFound", "Unknown tool")))
         /\ UNCHANGED <<messageId, calls, posts>>
    ELSE IF argumentsError(arguments) # NoError
    THEN /\ evaluation' = ToolCall(name, arguments, 0, Threw(argumentsError(arguments)))
         /\ UNCHANGED <<messageId, calls, posts>>
    ELSE /\ StartRequest(1, "ethereum_request", toolRequest(arguments).method,
                         toolRequest(arguments).params)
         /\ evaluation' = ToolCallOf(name, arguments, 1, calls'[1])

Construct ==
    /\ evaluation = NotEvaluated
    /\ \E config \in Configs :
          evaluation' = [fn |-> "constructor", input |-> config,
                         output |-> constructor(config).output,
                         created |-> constructor(config).created]
    /\ UNCHANGED <<messageId, calls, posts>>

CallTool ==
    /\ evaluation = NotEvaluated
    /\ \E name \in ToolNames, arguments \in ToolArguments : HandleCallTool(name, arguments)

\* The tool call is waiting for request().
ToolAwaiting ==
    /\ evaluation.fn = "callTool" /\ evaluation.call = 1
    /\ calls[1].pc = "awaiting"

\* The POST of the tool call resolves, and the handler resumes.
ToolPostResolve ==
    /\ ToolAwaiting
    /\ \E data \in ResponseBodies(calls[1].id) :
          Finish(1, "resolved", data, afterPost(calls[1].method, data))
    /\ evaluation' = ToolCallOf(evaluation.name, evaluation.input, 1, calls'[1])
    /\ UNCHANGED <<messageId, posts>>

\* The POST of the tool call rejects, and the handler resumes.
ToolPostReject ==
    /\ ToolAwaiting
    /\ \E error \in Rejections : Finish(1, "rejected", Undefined, Threw(error))
    /\ evaluation' = ToolCallOf(evaluation.name, evaluation.input, 1, calls'[1])
    /\ UNCHANGED <<messageId, posts>>

\* The POST of the tool call rejects under the request() whose catch block
\* throws again what it caught, and the handler resumes.
ToolPostRejectRethrown ==
    /\ ToolAwaiting
    /\ \E error \in Rejections : Settle(1, "rejected", Undefined, error, Threw(error))
    /\ evaluation' = ToolCallOf(evaluation.name, evaluation.input, 1, calls'[1])
    /\ UNCHANGED <<messageId, posts>>

NextServer ==
    \/ Construct
    \/ CallTool
    \/ ToolPostResolve
    \/ ToolPostReject
    \/ ToolPostRejectRethrown

SpecServer == Init /\ [][NextServer]_vars

(***************************************************************************)
(* Properties.                                                             *)
(***************************************************************************)
\* The envelopes posted for call c.
PostsOf(c) == { i \in DOMAIN posts : posts[i].call = c }

Made(c) == calls[c].pc # "idle"

\* The verdict of the validator on the request of call c.
Verdict(c) == validateParams(calls[c].method, calls[c].params)

\* C1: a call of request() on one of the three validated methods whose
\* params fail validation never has an envelope posted: it has ended, by
\* throwing the validation error, with the transport untouched for it.
C1_NoPostOnValidationFailure ==
    \A c \in Calls :
        (Made(c) /\ calls[c].method \in ValidatedMethods /\ Verdict(c) # NoError)
        => /\ PostsOf(c) = {}
           /\ calls[c].post = "none"
           /\ calls[c].pc = "done"
           /\ calls[c].outcome = Threw(Verdict(c))

\* A call was rejected by validation after an earlier call had posted.
C1_Witness ==
    \E c \in Calls :
        /\ Made(c) /\ calls[c].method \in ValidatedMethods /\ Verdict(c) # NoError
        /\ posts # <<>>

\* C2: a call of request() that passes validation has exactly one envelope
\* posted, while its POST is pending and after it resolved or rejected; and
\* a call whose POST rejected has ended by throwing.
C2_ExactlyOnePost ==
    \A c \in Calls :
        (Made(c) /\ Verdict(c) = NoError)
        => /\ Cardinality(PostsOf(c)) = 1
           /\ calls[c].post \in {"pending", "resolved", "rejected"}
           /\ (calls[c].post = "pending") = (calls[c].pc = "awaiting")
           /\ calls[c].post = "rejected"
              => calls[c].pc = "done" /\ calls[c].outcome.kind = "threw"

\* One call ended on a rejected POST and another on a resolved one.
C2_Witness ==
    \E c, d \in Calls :
        /\ calls[c].post = "rejected" /\ calls[c].pc = "done"
        /\ calls[d].post = "resolved"

\* C3: no two posted envelopes carry the same id.
C3_UniqueIds ==
    \A i, j \in DOMAIN posts : i # j => posts[i].body.id # posts[j].body.id

\* Two calls are in flight at once: the second was started before the
\* response of the first arrived.
C3_Witness ==
    \E c, d \in Calls :
        /\ c # d
        /\ calls[c].pc = "awaiting" /\ calls[d].pc = "awaiting"
        /\ Len(posts) >= 2

\* C4: a call of request() that returns, returns a response without a
\* node-side error whose result is the normalized form of the result the
\* node sent; every other call throws.
C4_AllOrNothing ==
    \A c \in Calls :
        calls[c].pc = "done"
        => \/ calls[c].outcome.kind = "threw"
           \/ /\ calls[c].outcome.kind = "returned"
              /\ Get(calls[c].outcome.value, "error").t = "undefined"
              /\ Get(calls[c].raw, "result").t # "undefined"
              /\ Get(calls[c].outcome.value, "result")
                    = transformResponse(calls[c].method, Get(calls[c].raw, "result"))

TheMethod == calls[1].method

TheParams == calls[1].params

Accepted == calls[1].pc = "awaiting" /\ calls[1].outcome = NoOutcome /\ Len(posts) = 1

RejectedWith(message) ==
    /\ calls[1].pc = "done"
    /\ posts = <<>>
    /\ calls[1].outcome = Threw([cls |-> "ValidationCloudError", message |-> message,
                                 code |-> Num(-32602), details |-> Undefined,
                                 isAxiosError |-> FALSE, response |-> Undefined])

BeginsWith0x(v) == v.t = "string" /\ Len(v.s) >= 2 /\ SubSeq(v.s, 1, 2) = <<"0", "x">>

\* C6: eth_getLogs is accepted exactly when params is a list of one element
\* that is an object, neither null nor an array nor a primitive; anything
\* else is rejected with the filter-object error.
C6_GetLogsValidation ==
    (Made(1) /\ TheMethod = "eth_getLogs")
    => IF /\ TheParams.t = "array"
          /\ Len(TheParams.a) = 1
          /\ TheParams.a[1].t = "object"
       THEN Accepted
       ELSE RejectedWith(Text("eth_getLogs requires a filter object parameter"))

\* C7: eth_getBalance is rejected with the missing-parameter error when
\* params is omitted or has not exactly two elements, otherwise with the
\* address error when params[0] is not a string beginning with '0x', and is
\* accepted otherwise.
C7_GetBalanceValidation ==
    (Made(1) /\ TheMethod = "eth_getBalance")
    => IF TheParams.t # "array" \/ Len(TheParams.a) # 2
       THEN RejectedWith(Text("eth_getBalance requires address and block parameters"))
       ELSE IF ~BeginsWith0x(TheParams.a[1])
       THEN RejectedWith(Text("Invalid address parameter"))
       ELSE Accepted

\* Two params whose first is a string without the prefix: the second check
\* is the one that rejects.
C7_Witness ==
    /\ Made(1) /\ TheMethod = "eth_getBalance"
    /\ TheParams.t = "array" /\ Len(TheParams.a) = 2
    /\ TheParams.a[1].t = "string" /\ ~BeginsWith0x(TheParams.a[1])
    /\ calls[1].pc = "done"

\* C8: eth_getTransactionByHash is accepted exactly when params is a list of
\* one string beginning with '0x'; anything else is rejected with the
\* transaction-hash error.
C8_GetTransactionByHashValidation ==
    (Made(1) /\ TheMethod = "eth_getTransactionByHash")
    => IF /\ TheParams.t = "array"
          /\ Len(TheParams.a) = 1
          /\ BeginsWith0x(TheParams.a[1])
       THEN Accepted
       ELSE RejectedWith(Text("Invalid transaction hash parameter"))

\* A hash with the prefix followed by a second element: the length rejects.
C8_Witness ==
    /\ Made(1) /\ TheMethod = "eth_getTransactionByHash"
    /\ TheParams.t = "array" /\ Len(TheParams.a) = 2
    /\ BeginsWith0x(TheParams.a[1])
    /\ calls[1].pc = "done"

\* C9: a request for any other method is never rejected: it is posted, with
\* its params as given, or with the empty list when they were omitted.
C9_OtherMethodsPassThrough ==
    (Made(1) /\ TheMethod \notin {"eth_getBalance", "eth_getTransactionByHash",
                                  "eth_getLogs"})
    => /\ Accepted
       /\ posts[1].body.method = TheMethod
       /\ posts[1].body.params = IF TheParams.t = "undefined" THEN Arr(<<>>)
                                 ELSE TheParams

\* An unvalidated method was called without params and was posted with the
\* empty list.
C9_Witness ==
    /\ Made(1) /\ TheMethod = "eth_call"
    /\ TheParams.t = "undefined"
    /\ posts[1].body.params = Arr(<<>>)

\* C10: testConnection() makes one eth_blockNumber request without params,
\* and ends with true when that request returned and with false when it
\* threw; it has no other result.
C10_TestConnection ==
    \A c \in Calls :
        calls[c].via = "testConnection"
        => /\ calls[c].method = "eth_blockNumber"
           /\ Cardinality(PostsOf(c)) = 1
           /\ \A i \in PostsOf(c) : /\ posts[i].body.method = "eth_blockNumber"
                                    /\ posts[i].body.params = Arr(<<>>)
           /\ calls[c].pc # "done" => calls[c].connected = "none"
           /\ calls[c].pc = "done"
              => /\ calls[c].connected \in {"true", "false"}
                 /\ (calls[c].connected = "true") = (calls[c].outcome.kind = "returned")
                 /\ (calls[c].connected = "false") = (calls[c].outcome.kind = "threw")

\* One testConnection() ended with true and another with false.
C10_Witness ==
    \E c, d \in Calls :
        /\ calls[c].via = "testConnection" /\ calls[c].connected = "true"
        /\ calls[d].via = "testConnection" /\ calls[d].connected = "false"

(***************************************************************************)
(* Properties of the errors of the transport.                              *)
(***************************************************************************)
\* Call c ended on a POST that the transport rejected with an AxiosError
\* whose response has a structured body.
FailedWithBody(c) ==
    /\ calls[c].pc = "done" /\ calls[c].post = "rejected"
    /\ calls[c].caught.isAxiosError
    /\ Get(calls[c].caught.response, "data").t = "object"

TheBody(c) == Get(calls[c].caught.response, "data")

\* C11 as stated: the error takes its message and its code from the body
\* when the body provides them, and otherwise the message of the transport
\* and the HTTP status; the body is its details.
C11_MessageAndCodeFromBody ==
    \A c \in Calls :
        FailedWithBody(c)
        => /\ calls[c].outcome.kind = "threw"
           /\ calls[c].outcome.value.message
                 = IF Truthy(Get(TheBody(c), "message")) THEN Get(TheBody(c), "message")
                   ELSE calls[c].caught.message
           /\ calls[c].outcome.value.code
                 = IF Get(TheBody(c), "code").t # "undefined" THEN Get(TheBody(c), "code")
                   ELSE Get(calls[c].caught.response, "status")
           /\ calls[c].outcome.value.details = TheBody(c)

\* C11, amended: the error takes its message from the body when the body
\* provides one and otherwise the message of the transport; its code is
\* the HTTP status of the response, whether or not the body has a code; the
\* body is its details.
C11_MessageFromBodyCodeFromStatus ==
    \A c \in Calls :
        FailedWithBody(c)
        => /\ calls[c].outcome.kind = "threw"
           /\ calls[c].outcome.value.cls = "ValidationCloudError"
           /\ calls[c].outcome.value.message
                 = IF Truthy(Get(TheBody(c), "message")) THEN Get(TheBody(c), "message")
                   ELSE calls[c].caught.message
           /\ calls[c].outcome.value.code = Get(calls[c].caught.response, "status")
           /\ calls[c].outcome.value.details = TheBody(c)

\* One call failed with a body that has a message and a code of its own,
\* another with a body that has a code and no message.
C11_Witness ==
    \E c, d \in Calls :
        /\ FailedWithBody(c) /\ Truthy(Get(TheBody(c), "message"))
        /\ Get(TheBody(c), "code").t = "number"
        /\ Get(TheBody(c), "code") # Get(calls[c].caught.response, "status")
        /\ FailedWithBody(d) /\ ~Truthy(Get(TheBody(d), "message"))
        /\ calls[d].outcome.value.message = calls[d].caught.message

\* C12: when the POST is rejected without any response, the error that
\* request() throws has the message of the exception, and neither code nor
\* details.
C12_NoResponse ==
    \A c \in Calls :
        (/\ calls[c].pc = "done" /\ calls[c].post = "rejected"
         /\ instanceofError(calls[c].caught)
         /\ calls[c].caught.response.t = "undefined")
        => calls[c].outcome
             = Threw(ValidationCloudError(calls[c].caught.message, Undefined, Undefined))

\* A call failed on an AxiosError without a response, another on an Error
\* that is no AxiosError.
C12_Witness ==
    \E c, d \in Calls :
        /\ calls[c].pc = "done" /\ calls[c].post = "rejected"
        /\ calls[c].caught.isAxiosError /\ calls[c].caught.response.t = "undefined"
        /\ calls[c].outcome.value.message = Text("Network Error")
        /\ calls[d].pc = "done" /\ calls[d].post = "rejected"
        /\ ~calls[d].caught.isAxiosError /\ instanceofError(calls[d].caught)
        /\ calls[d].outcome.value.message = Text("Connection failed")

(***************************************************************************)
(* Properties of the conversions.                                          *)
(***************************************************************************)
Evaluated(fn) == evaluation.fn = fn

\* C13: on the empty string, null and '0x', hexToDecimal returns the number
\* 0, hexToDecimalString the string '0' and weiToEther the string '0'; none
\* of them throws.
C13_ZeroValues ==
    (/\ evaluation.fn \in Conversions
     /\ evaluation.input \in {Str(<<>>), Null, Str(<<"0", "x">>)})
    => evaluation.output = IF Evaluated("hexToDecimal") THEN Num(0) ELSE Str(<<"0">>)

\* The hexadecimal digits of s, lower case: s is a hex string with or
\* without the '0x' prefix.
HexDigitsOf(s) ==
    LET body == IF Len(s) >= 2 /\ SubSeq(s, 1, 2) = <<"0", "x">>
                THEN SubSeq(s, 3, Len(s)) ELSE s
    IN  [i \in 1..Len(body) |-> HexDigits[DigitValue(body[i]) + 1]]

\* s is one or more hexadecimal digits, with or without the '0x' prefix.
IsHexString(s) ==
    LET body == IF Len(s) >= 2 /\ SubSeq(s, 1, 2) = <<"0", "x">>
                THEN SubSeq(s, 3, Len(s)) ELSE s
    IN  Len(body) > 0 /\ \A i \in 1..Len(body) : IsHexDigit(body[i])

RECURSIVE StripLeadingZeros(_)
StripLeadingZeros(s) ==
    IF Len(s) > 1 /\ s[1] = "0" THEN StripLeadingZeros(Tail(s)) ELSE s

\* Long division of the decimal digits ds by 16: the digits of the quotient.
RECURSIVE Quotient16(_, _)
Quotient16(ds, rem) ==
    IF Len(ds) = 0 THEN <<>>
    ELSE <<HexDigits[((rem * 10 + DigitValue(ds[1])) \div 16) + 1]>>
         \o Quotient16(Tail(ds), (rem * 10 + DigitValue(ds[1])) % 16)

RECURSIVE Remainder16(_, _)
Remainder16(ds, rem) ==
    IF Len(ds) = 0 THEN rem
    ELSE Remainder16(Tail(ds), (rem * 10 + DigitValue(ds[1])) % 16)

\* The decimal string ds parsed back and written in hexadecimal.
RECURSIVE ParsedBack(_)
ParsedBack(ds) ==
    IF StripLeadingZeros(ds) = <<"0">> THEN <<>>
    ELSE ParsedBack(StripLeadingZeros(Quotient16(ds, 0)))
         \o <<HexDigits[Remainder16(ds, 0) + 1]>>

\* C14: for a hex string h, with or without the prefix and of any length,
\* hexToDecimalString(h) is a string of decimal digits without a leading
\* zero which, parsed back, is the integer that the digits of h denote.
C14_ExactDecimal ==
    (Evaluated("hexToDecimalString") /\ evaluation.input.t = "string"
     /\ IsHexString(evaluation.input.s))
    => /\ evaluation.output.t = "string"
       /\ Len(evaluation.output.s) > 0
       /\ \A i \in 1..Len(evaluation.output.s) : IsDecDigit(evaluation.output.s[i])
       /\ StripLeadingZeros(evaluation.output.s) = evaluation.output.s
       /\ StripLeadingZeros(<<"0">> \o ParsedBack(evaluation.output.s))
             = StripLeadingZeros(<<"0">> \o HexDigitsOf(evaluation.input.s))

\* A quantity of more than 64 bits was converted: 2^128 - 1, as in the test
\* of the conversion.
C14_Witness ==
    /\ Evaluated("hexToDecimalString")
    /\ evaluation.input = Str(<<"0", "x">> \o Repeat("f", 32))
    /\ evaluation.output = Str(<<"3", "4", "0", "2", "8", "2", "3", "6", "6", "9", "2", "0",
                                 "9", "3", "8", "4", "6", "3", "4", "6", "3", "3", "7", "4",
                                 "6", "0", "7", "4", "3", "1", "7", "6", "8", "2", "1", "1",
                                 "4", "5", "5">>)

(***************************************************************************)
(* Properties of the normalizer.                                           *)
(***************************************************************************)
\* transformResponse was applied for one of the methods.
Normalized(methods) ==
    evaluation.fn = "transformResponse" /\ evaluation.method \in methods

TheInput == evaluation.input

TheOutput == evaluation.output

\* C15: for eth_getBalance, a result that is a string becomes the pair
\* { wei: hexToDecimalString(result), ether: weiToEther(result) }, and a
\* result that is no string is returned unchanged, without an error.
C15_BalancePair ==
    Normalized({"eth_getBalance"})
    => IF TheInput.t = "string"
       THEN TheOutput = Obj([wei |-> hexToDecimalString(TheInput),
                             ether |-> weiToEther(TheInput)])
       ELSE TheOutput = TheInput

\* C16: for eth_blockNumber, eth_gasPrice and eth_estimateGas the
\* normalized result is hexToDecimal(result) for every result, and it is a
\* number.
C16_QuantityIsDecimal ==
    Normalized(QuantityMethods)
    => /\ TheOutput = hexToDecimal(TheInput)
       /\ TheOutput.t = "number"

ConvertedBlockKeys == {"number", "gasLimit", "gasUsed", "timestamp"}

\* C17: a block that is an object is normalized without an error; each of
\* number, gasLimit, gasUsed and timestamp is its hexToDecimal conversion
\* when it is truthy in the source, and is otherwise as in the source:
\* absent when absent.  A result that is no object is returned unchanged.
C17_BlockFieldsWhenPresent ==
    Normalized(BlockMethods)
    => IF TheInput.t = "object"
       THEN /\ TheOutput.t = "object"
            /\ \A k \in ConvertedBlockKeys :
                  IF Truthy(Get(TheInput, k))
                  THEN Get(TheOutput, k) = hexToDecimal(Get(TheInput, k))
                  ELSE /\ (k \in DOMAIN TheOutput.f) = (k \in DOMAIN TheInput.f)
                       /\ Get(TheOutput, k) = Get(TheInput, k)
       ELSE TheInput.t = "array" \/ TheOutput = TheInput

\* A block, given as an object, whose transactions field is an array.
BlockWithTransactions ==
    /\ Normalized(BlockMethods)
    /\ TheInput.t = "object"
    /\ Get(TheInput, "transactions").t = "array"

TheTransactions == Get(TheInput, "transactions").a

\* C18: the transactions array of a block is mapped element by element:
\* the output array has the same length, an element that is an object is
\* its transaction transform and a bare hash string is the same string, at
\* the same index.  The normalization raises an exception only when the
\* conversion of a field of the block or the transform of an element raises
\* one.
C18_TransactionsMapped ==
    BlockWithTransactions
    => IF IsThrow(TheOutput)
       THEN \/ \E k \in ConvertedBlockKeys : IsThrow(hexToDecimal(Get(TheInput, k)))
            \/ \E i \in 1..Len(TheTransactions) :
                  /\ TheTransactions[i].t = "object"
                  /\ IsThrow(transformTransaction(TheTransactions[i]))
       ELSE /\ Get(TheOutput, "transactions").t = "array"
            /\ Len(Get(TheOutput, "transactions").a) = Len(TheTransactions)
            /\ \A i \in 1..Len(TheTransactions) :
                  /\ TheTransactions[i].t = "object"
                     => Get(TheOutput, "transactions").a[i]
                          = transformTransaction(TheTransactions[i])
                  /\ TheTransactions[i].t = "string"
                     => Get(TheOutput, "transactions").a[i] = TheTransactions[i]

\* A block with a bare hash followed by a transaction object was
\* normalized: the hash is kept and the object is transformed.
C18_Witness ==
    /\ BlockWithTransactions
    /\ ~IsThrow(TheOutput)
    /\ Len(TheTransactions) = 2
    /\ TheTransactions[1].t = "string" /\ TheTransactions[2].t = "object"
    /\ Get(TheOutput, "transactions").a[1] = TheTransactions[1]
    /\ Get(Get(TheOutput, "transactions").a[2], "gas") = Num(31)

\* A transaction, given as an object, was transformed and the transform
\* returned.
TransactionTransformed ==
    /\ Normalized(TransactionMethods)
    /\ TheInput.t = "object"
    /\ ~IsThrow(TheOutput)

\* C19: the output of the transaction transform always has blockNumber,
\* transactionIndex and gasPrice: the hexToDecimal conversion of the source
\* field when that is truthy, and null when it is null, absent or empty.
C19_NullableFields ==
    TransactionTransformed
    => /\ TheOutput.t = "object"
       /\ \A k \in {"blockNumber", "transactionIndex", "gasPrice"} :
             /\ k \in DOMAIN TheOutput.f
             /\ TheOutput.f[k] = IF Truthy(Get(TheInput, k))
                                 THEN hexToDecimal(Get(TheInput, k)) ELSE Null

\* A transaction with a null blockNumber, a converted gasPrice and no
\* transactionIndex was transformed.
C19_Witness ==
    /\ TransactionTransformed
    /\ Get(TheInput, "blockNumber") = Null
    /\ "transactionIndex" \notin DOMAIN TheInput.f
    /\ Get(TheOutput, "blockNumber") = Null
    /\ Get(TheOutput, "transactionIndex") = Null
    /\ Get(TheOutput, "gasPrice") = Num(31)

\* C20: in the output of the transaction transform each of gasUsed,
\* cumulativeGasUsed and effectiveGasPrice is the hexToDecimal conversion
\* of the source field when that is truthy; when the source has no such
\* field the output has none, and a field that is there without being
\* truthy is left as it is.
C20_OptionalFields ==
    TransactionTransformed
    => /\ TheOutput.t = "object"
       /\ \A k \in {"gasUsed", "cumulativeGasUsed", "effectiveGasPrice"} :
             IF Truthy(Get(TheInput, k))
             THEN Get(TheOutput, k) = hexToDecimal(Get(TheInput, k))
             ELSE /\ (k \in DOMAIN TheOutput.f) = (k \in DOMAIN TheInput.f)
                  /\ Get(TheOutput, k) = Get(TheInput, k)

\* A receipt with gasUsed and without effectiveGasPrice was transformed:
\* gasUsed is converted and effectiveGasPrice is still missing.
C20_Witness ==
    /\ TransactionTransformed
    /\ Get(TheInput, "gasUsed") = Str(<<"0", "x", "1", "f">>)
    /\ "effectiveGasPrice" \notin DOMAIN TheInput.f
    /\ Get(TheOutput, "gasUsed") = Num(31)
    /\ "effectiveGasPrice" \notin DOMAIN TheOutput.f
    /\ "cumulativeGasUsed" \notin DOMAIN TheOutput.f

\* C21: the output of the transaction transform has gas and nonce as the
\* hexToDecimal conversion of the source field, 0 when the source has none,
\* and value as the pair { wei: hexToDecimalString(value), ether:
\* weiToEther(value) }, { wei: '0', ether: '0' } when the source has none.
C21_AlwaysRewritten ==
    TransactionTransformed
    => /\ TheOutput.t = "object"
       /\ \A k \in {"gas", "nonce"} :
             /\ Get(TheOutput, k) = hexToDecimal(Get(TheInput, k))
             /\ k \notin DOMAIN TheInput.f => Get(TheOutput, k) = Num(0)
       /\ Get(TheOutput, "value")
             = Obj([wei |-> hexToDecimalString(Get(TheInput, "value")),
                    ether |-> weiToEther(Get(TheInput, "value"))])
       /\ "value" \notin DOMAIN TheInput.f
          => Get(TheOutput, "value") = Obj([wei |-> Str(<<"0">>), ether |-> Str(<<"0">>)])

\* A receipt, which has no gas, nonce or value, was transformed.
C21_Witness ==
    /\ TransactionTransformed
    /\ Get(TheInput, "cumulativeGasUsed") = Str(<<"0", "x", "f", "f">>)
    /\ {"gas", "nonce", "value"} \cap DOMAIN TheInput.f = {}
    /\ Get(TheOutput, "gas") = Num(0)
    /\ Get(TheOutput, "nonce") = Num(0)
    /\ Get(TheOutput, "value") = Obj([wei |-> Str(<<"0">>), ether |-> Str(<<"0">>)])

NamedTransactionKeys ==
    {"blockNumber", "transactionIndex", "gas", "gasPrice", "nonce", "value",
     "gasUsed", "cumulativeGasUsed", "effectiveGasPrice"}

\* C22: the block transform and the transaction transform of an object
\* give an object in which every field they do not name has the key and
\* the value it has in the source; the transaction transform returns an
\* input that is no object unchanged.
C22_OtherFieldsUnchanged ==
    /\ (Normalized(BlockMethods) /\ TheInput.t = "object")
       => /\ TheOutput.t = "object"
          /\ \A k \in DOMAIN TheInput.f \ (ConvertedBlockKeys \cup {"transactions"}) :
                k \in DOMAIN TheOutput.f /\ TheOutput.f[k] = TheInput.f[k]
    /\ (Normalized(TransactionMethods) /\ TheInput.t = "object")
       => /\ TheOutput.t = "object"
          /\ \A k \in DOMAIN TheInput.f \ NamedTransactionKeys :
                k \in DOMAIN TheOutput.f /\ TheOutput.f[k] = TheInput.f[k]
    /\ (Normalized(TransactionMethods) /\ TheInput.t \notin {"object", "array"})
       => TheOutput = TheInput

ModeledMethods ==
    QuantityMethods \cup {"eth_getBalance"} \cup BlockMethods \cup TransactionMethods

C24_TransactionCountIsDecimal ==
    (/\ Normalized({"eth_getTransactionCount"})
     /\ TheInput.t = "string" /\ IsHexString(TheInput.s))
    => TheOutput = hexToDecimal(TheInput) /\ TheOutput.t = "number"

\* C30: for a hex string, with or without the prefix, the normalizer gives
\* a pair whose ether is '0' exactly when its wei is '0': as the result of
\* eth_getBalance, and as the value of a transformed transaction.
C30_SameAmount ==
    /\ (/\ Normalized({"eth_getBalance"})
        /\ TheInput.t = "string" /\ IsHexString(TheInput.s))
       => /\ TheOutput.t = "object"
          /\ (Get(TheOutput, "ether") = Str(<<"0">>)) = (Get(TheOutput, "wei") = Str(<<"0">>))
    /\ (/\ Normalized(TransactionMethods) /\ TheInput.t = "object"
        /\ Get(TheInput, "value").t = "string" /\ IsHexString(Get(TheInput, "value").s))
       => /\ TheOutput.t = "object"
          /\ (Get(Get(TheOutput, "value"), "ether") = Str(<<"0">>))
                = (Get(Get(TheOutput, "value"), "wei") = Str(<<"0">>))

\* C27: on a string that is no base-16 integer, hexToDecimal returns the
\* number 0, hexToDecimalString the string '0' and weiToEther the string
\* '0'; none of them throws or returns NaN.
C27_TotalOnStrings ==
    (/\ evaluation.fn \in Conversions
     /\ TheInput.t = "string" /\ ~IsHexString(TheInput.s))
    => TheOutput = IF Evaluated("hexToDecimal") THEN Num(0) ELSE Str(<<"0">>)

\* What call c ends with when nothing but its own method, params, response
\* and rejection decide.
OwnOutcome(c) ==
    LET call == calls[c]
        verdict == validateParams(call.method, call.params)
    IN  IF verdict # NoError THEN requestOutcome(Threw(verdict))
        ELSE IF call.post = "resolved"
        THEN requestOutcome(afterPost(call.method, call.raw))
        ELSE requestOutcome(Threw(call.caught))

\* C28: with calls in flight together, every call that ended returned or
\* threw what its own response gives under its own method, and every
\* envelope sent carries the id, method and params of the call that sent it,
\* whatever the other calls are and in whatever order they end.
C28_OwnResponseOwnMethod ==
    /\ \A c \in Calls : calls[c].pc = "done" => calls[c].outcome = OwnOutcome(c)
    /\ \A i \in 1..Len(posts) :
          LET call == calls[posts[i].call]
          IN  posts[i].body = requestBody(call.id, call.method, call.params)

\* Call 2 was sent while call 1, an eth_blockNumber, was in flight, and
\* ended first: its eth_getTransactionByHash result '0x1f' came back as the
\* string it was, not as the number the method of call 1 would make of it.
C28_Witness ==
    /\ calls[1].pc = "awaiting" /\ calls[1].method = "eth_blockNumber"
    /\ calls[2].pc = "done" /\ calls[2].method = "eth_getTransactionByHash"
    /\ calls[2].outcome.kind = "returned"
    /\ Get(calls[2].raw, "result") = Str(<<"0", "x", "1", "f">>)
    /\ Get(calls[2].outcome.value, "result") = Str(<<"0", "x", "1", "f">>)

\* The calls that passed validation, which are those that sent an envelope.
ValidatedCalls == { c \in Calls : calls[c].post # "none" }

\* C29: messageId is 1 plus the number of calls that passed validation, a
\* call rejected by validation has taken no id and sent nothing, and the
\* envelopes sent carry the ids 1, 2, 3, ... in the order they were sent,
\* one per validated call.
C29_IdsWithoutGaps ==
    /\ messageId = 1 + Cardinality(ValidatedCalls)
    /\ Len(posts) = Cardinality(ValidatedCalls)
    /\ \A i \in 1..Len(posts) : posts[i].body.id = i /\ calls[posts[i].call].id = i
    /\ \A c \in Calls \ ValidatedCalls : calls[c].id = 0

\* A call rejected by validation was followed by a validated one, which
\* took the id 1.
C29_Witness ==
    /\ calls[1].pc = "done" /\ calls[1].post = "none"
    /\ calls[1].outcome.kind = "threw"
    /\ calls[1].outcome.value.code = Num(INVALID_PARAMS)
    /\ calls[2].post # "none" /\ calls[2].id = 1
    /\ Len(posts) = 1 /\ posts[1].body.id = 1
    /\ messageId = 2

\* The tool call of ethereum_request has ended.
ToolCallEnded ==
    /\ evaluation.fn = "callTool" /\ evaluation.name = "ethereum_request"
    /\ evaluation.output # NoOutcome

\* What request() threw into the handler, if it was called and threw.
ClientThrew ==
    /\ ToolCallEnded /\ evaluation.call = 1
    /\ calls[1].pc = "done" /\ calls[1].outcome.kind = "threw"

\* C25: a tool call of ethereum_request whose request() threw a
\* ValidationCloudError returns a result marked isError whose text is
\* 'Validation Cloud API error: ' followed by the message of the error; it
\* throws any other value request() threw, as it is; and when the arguments
\* are missing or no object, or method is no string, it throws an McpError
\* of code InvalidParams with request() not called: no id taken, nothing
\* validated, nothing sent.
C25_ToolBoundary ==
    /\ (ClientThrew /\ calls[1].outcome.value.cls = "ValidationCloudError")
       => /\ evaluation.output.kind = "returned"
          /\ Get(evaluation.output.value, "isError") = Bool(TRUE)
          /\ Get(evaluation.output.value, "content").t = "array"
          /\ Get(Get(evaluation.output.value, "content").a[1], "text")
               = Text("Validation Cloud API error: " \o calls[1].outcome.value.message.s)
    /\ (ClientThrew /\ calls[1].outcome.value.cls # "ValidationCloudError")
       => evaluation.output = Threw(calls[1].outcome.value)
    /\ (/\ evaluation.fn = "callTool" /\ evaluation.name = "ethereum_request"
        /\ \/ evaluation.input.t # "object"
           \/ typeof(Get(evaluation.input, "method")) # "string")
       => /\ evaluation.output.kind = "threw"
          /\ evaluation.output.value.cls = "McpError"
          /\ evaluation.output.value.code = Text("InvalidParams")
          /\ evaluation.call = 0
          /\ messageId = 1 /\ posts = <<>>
          /\ \A c \in Calls : calls[c] = IdleCall

\* The POST of a tool call was rejected with a response of status 400, and
\* the tool returned an error result with the message of the response
\* body.
C25_Witness ==
    /\ ClientThrew /\ calls[1].post = "rejected"
    /\ calls[1].outcome.value.cls = "ValidationCloudError"
    /\ calls[1].outcome.value.code = Num(400)
    /\ Get(evaluation.output.value, "isError") = Bool(TRUE)
    /\ Get(Get(evaluation.output.value, "content").a[1], "text")
         = Text("Validation Cloud API error: Invalid request")

\* C26: a construction without a non-empty apiKey throws an Error with the
\* message 'API key is required' and has created no transport; one with an
\* apiKey returns and has created exactly one transport, whose base URL is
\* the configured baseURL, or the default when none is configured, followed
\* by '/' and the apiKey, and whose timeout is the configured one, or 30000
\* when none is configured.
C26_Construction ==
    Evaluated("constructor")
    => LET config == evaluation.input
           apiKey == Get(config, "apiKey")
       IN  IF apiKey.t = "undefined" \/ apiKey = Text("")
           THEN /\ evaluation.output.kind = "threw"
                /\ evaluation.output.value.cls = "Error"
                /\ evaluation.output.value.message = Text("API key is required")
                /\ evaluation.created = <<>>
           ELSE /\ evaluation.output.kind = "returned"
                /\ Len(evaluation.created) = 1
                /\ Get(config, "baseURL").t = "undefined"
                   => Get(evaluation.created[1], "baseURL")
                        = Text("https://mainnet.ethereum.validationcloud.io/v1/" \o apiKey.s)
                /\ Get(config, "baseURL").t = "text"
                   => Get(evaluation.created[1], "baseURL")
                        = Text((IF Get(config, "baseURL").s = ""
                                THEN "https://mainnet.ethereum.validationcloud.io/v1"
                                ELSE Get(config, "baseURL").s) \o "/" \o apiKey.s)
                /\ Get(config, "timeout").t = "undefined"
                   => Get(evaluation.created[1], "timeout") = Num(30000)
                /\ Get(config, "timeout").t = "number"
                   => Get(evaluation.created[1], "timeout")
                        = IF Get(config, "timeout").n = 0 THEN Num(30000)
                          ELSE Get(config, "timeout")

\* A client was constructed from an apiKey alone: one transport, with the
\* default base URL and timeout.
C26_Witness ==
    /\ Evaluated("constructor")
    /\ evaluation.input = Obj([apiKey |-> Text("test-api-key")])
    /\ evaluation.output.kind = "returned"
    /\ Len(evaluation.created) = 1
    /\ Get(evaluation.created[1], "baseURL")
         = Text("https://mainnet.ethereum.validationcloud.io/v1/test-api-key")
    /\ Get(evaluation.created[1], "timeout") = Num(30000)

====
